---- MODULE Spec2Model ----
(***************************************************************************)
(* Model of client/neuralake/export/static_site/src/lib/data.ts: an ES     *)
(* module that, when first evaluated, fetches '/data.json', checks         *)
(* response.ok, parses the body with response.json() and exports the       *)
(* result as the constant binding `neuralake`.                             *)
(*                                                                         *)
(* Text is modelled as a sequence of one-character strings, so that the    *)
(* body parse is a computation over characters.  The JSON grammar covered  *)
(* is: null, true, false, integers with optional minus sign, strings with  *)
(* the simple escapes, arrays, objects and whitespace.  Fractions,         *)
(* exponents and \u escapes are outside the alphabet the bodies are drawn  *)
(* from.                                                                   *)
(***************************************************************************)
EXTENDS Integers, Sequences, FiniteSets, TLC

(***************************************************************************)
(* JSON values.  Every value is a record with the same fields, each field  *)
(* of one type, so that any two values can be compared: num is the value   *)
(* of a number, str the characters of a string, items the elements of an   *)
(* array and members the mapping from the keys of an object to their       *)
(* values.  The fields a kind does not use are empty.                      *)
(***************************************************************************)
JVal(kind, num, str, items, members) ==
  [kind |-> kind, num |-> num, str |-> str, items |-> items, members |-> members]
JNull == JVal("null", 0, <<>>, <<>>, <<>>)
JBool(b) == JVal(IF b THEN "true" ELSE "false", 0, <<>>, <<>>, <<>>)
JNumber(n) == JVal("number", n, <<>>, <<>>, <<>>)
JString(cs) == JVal("string", 0, cs, <<>>, <<>>)
JArray(vs) == JVal("array", 0, <<>>, vs, <<>>)
JObject(f) == JVal("object", 0, <<>>, <<>>, f)

\* The module-scoped binding before line 8 has run (temporal dead zone).
Unset == JVal("unset", 0, <<>>, <<>>, <<>>)

Whitespace == {" ", "\n", "\t", "\r"}
Digits == <<"0", "1", "2", "3", "4", "5", "6", "7", "8", "9">>
DigitSet == {Digits[d] : d \in 1..10}
DigitVal(c) == (CHOOSE d \in 1..10 : Digits[d] = c) - 1

\* The two control characters that have no escape in a TLA+ string.
Backspace == "<U+0008>"
FormFeed == "<U+000C>"
ControlChars == {"\n", "\t", "\r", Backspace, FormFeed}

\* The characters that may follow a backslash in a string, and what each
\* one decodes to.
SimpleEscapes == {"\"", "\\", "/", "b", "f", "n", "r", "t"}
Unescape(c) ==
  CASE c = "n" -> "\n"
    [] c = "t" -> "\t"
    [] c = "r" -> "\r"
    [] c = "b" -> Backspace
    [] c = "f" -> FormFeed
    [] OTHER -> c

\* Results of the parsing functions: a value and the position after it, or
\* the position of the offending character.
ParseOk(v, next) == [ok |-> TRUE, val |-> v, pos |-> next]
ParseFail(at) == [ok |-> FALSE, val |-> Unset, pos |-> at]

RECURSIVE SkipWs(_, _)
SkipWs(s, i) ==
  IF i <= Len(s) /\ s[i] \in Whitespace THEN SkipWs(s, i + 1) ELSE i

ParseLiteral(s, i, word, v) ==
  IF i + Len(word) - 1 <= Len(s) /\ SubSeq(s, i, i + Len(word) - 1) = word
  THEN ParseOk(v, i + Len(word))
  ELSE ParseFail(i)

RECURSIVE ParseDigits(_, _, _)
ParseDigits(s, i, acc) ==
  IF i <= Len(s) /\ s[i] \in DigitSet
  THEN ParseDigits(s, i + 1, acc * 10 + DigitVal(s[i]))
  ELSE ParseOk(acc, i)

\* int = "0" / ( digit1-9 *DIGIT ), with an optional leading minus
ParseNumber(s, i) ==
  LET neg == s[i] = "-"
      j == IF neg THEN i + 1 ELSE i
  IN  IF j > Len(s) \/ s[j] \notin DigitSet THEN ParseFail(j)
      ELSE LET r == IF s[j] = "0" THEN ParseOk(0, j + 1) ELSE ParseDigits(s, j, 0)
           IN  ParseOk(JNumber(IF neg THEN 0 - r.val ELSE r.val), r.pos)

RECURSIVE ParseChars(_, _, _)
ParseChars(s, i, acc) ==
  IF i > Len(s) THEN ParseFail(i)
  ELSE IF s[i] = "\"" THEN ParseOk(acc, i + 1)
  ELSE IF s[i] = "\\" THEN
         IF i + 1 <= Len(s) /\ s[i + 1] \in SimpleEscapes
         THEN ParseChars(s, i + 2, Append(acc, Unescape(s[i + 1])))
         ELSE ParseFail(i + 1)
  ELSE IF s[i] \in ControlChars THEN ParseFail(i)
  ELSE ParseChars(s, i + 1, Append(acc, s[i]))

\* s[i] is the opening quote
ParseString(s, i) ==
  LET r == ParseChars(s, i + 1, <<>>)
  IN  IF r.ok THEN ParseOk(JString(r.val), r.pos) ELSE r

RECURSIVE ParseValue(_, _)
RECURSIVE ParseElements(_, _, _)
RECURSIVE ParseMembers(_, _, _)

\* i is the position of the first element; acc the elements so far
ParseElements(s, i, acc) ==
  LET v == ParseValue(s, i)
  IN  IF ~v.ok THEN v
      ELSE LET k == SkipWs(s, v.pos)
               vs == Append(acc, v.val)
           IN  IF k > Len(s) THEN ParseFail(k)
               ELSE IF s[k] = "," THEN ParseElements(s, SkipWs(s, k + 1), vs)
               ELSE IF s[k] = "]" THEN ParseOk(JArray(vs), k + 1)
               ELSE ParseFail(k)

\* i is the position of the first member's key; acc maps the keys so far.
\* A repeated key keeps the later value.
ParseMembers(s, i, acc) ==
  IF i > Len(s) \/ s[i] # "\"" THEN ParseFail(i)
  ELSE LET key == ParseChars(s, i + 1, <<>>)
       IN  IF ~key.ok THEN key
           ELSE LET c == SkipWs(s, key.pos)
                IN  IF c > Len(s) \/ s[c] # ":" THEN ParseFail(c)
                    ELSE LET v == ParseValue(s, SkipWs(s, c + 1))
                         IN  IF ~v.ok THEN v
                             ELSE LET k == SkipWs(s, v.pos)
                                      f == (key.val :> v.val) @@ acc
                                  IN  IF k > Len(s) THEN ParseFail(k)
                                      ELSE IF s[k] = "," THEN ParseMembers(s, SkipWs(s, k + 1), f)
                                      ELSE IF s[k] = "}" THEN ParseOk(JObject(f), k + 1)
                                      ELSE ParseFail(k)

ParseValue(s, i) ==
  IF i > Len(s) THEN ParseFail(i)
  ELSE IF s[i] = "n" THEN ParseLiteral(s, i, <<"n", "u", "l", "l">>, JNull)
  ELSE IF s[i] = "t" THEN ParseLiteral(s, i, <<"t", "r", "u", "e">>, JBool(TRUE))
  ELSE IF s[i] = "f" THEN ParseLiteral(s, i, <<"f", "a", "l", "s", "e">>, JBool(FALSE))
  ELSE IF s[i] = "-" \/ s[i] \in DigitSet THEN ParseNumber(s, i)
  ELSE IF s[i] = "\"" THEN ParseString(s, i)
  ELSE IF s[i] = "[" THEN
         LET j == SkipWs(s, i + 1)
         IN  IF j <= Len(s) /\ s[j] = "]" THEN ParseOk(JArray(<<>>), j + 1)
             ELSE ParseElements(s, j, <<>>)
  ELSE IF s[i] = "{" THEN
         LET j == SkipWs(s, i + 1)
         IN  IF j <= Len(s) /\ s[j] = "}" THEN ParseOk(JObject(<<>>), j + 1)
             ELSE ParseMembers(s, j, <<>>)
  ELSE ParseFail(i)

\* What response.json() does with the text of the body: one JSON value,
\* surrounded by optional whitespace, and nothing after it.
JSONParse(s) ==
  LET r == ParseValue(s, SkipWs(s, 1))
  IN  IF ~r.ok THEN r
      ELSE LET j == SkipWs(s, r.pos)
           IN  IF j <= Len(s) THEN ParseFail(j) ELSE r

(***************************************************************************)
(* Bounds and the inputs of the model.                                     *)
(***************************************************************************)
MaxBodyLen == 2
NumImporters == 2
MaxReads == 2

Importers == 1..NumImporters

\* The resource path of line 3.
DataPath == "/data.json"

\* Status codes on both sides of each end of the success range 200-299,
\* and status texts, which a server chooses freely (HTTP/2 has none).
Statuses == {199, 200, 299, 300, 404}
StatusTexts == {"", "OK", "Not Found"}

RECURSIVE SeqsUpTo(_, _)
SeqsUpTo(S, n) ==
  IF n = 0 THEN {<<>>}
  ELSE LET shorter == SeqsUpTo(S, n - 1)
       IN  shorter \cup {Append(t, c) : t \in {u \in shorter : Len(u) = n - 1}, c \in S}

BodyAlphabet == {"[", "]", ",", "0", "1"}

\* {"tables": []}
TablesDoc == <<"{", "\"", "t", "a", "b", "l", "e", "s", "\"", ":", " ", "[", "]", "}">>
\* {"a":1,"a":[true, null]}
RepeatedKeyDoc ==
  <<"{", "\"", "a", "\"", ":", "1", ",", "\"", "a", "\"", ":", "[",
    "t", "r", "u", "e", ",", " ", "n", "u", "l", "l", "]", "}">>
\* "a\n" followed by a newline
EscapeDoc == <<"\"", "a", "\\", "n", "\"", "\n">>
\* -12
NegativeDoc == <<"-", "1", "2">>
\* {"tables": [}
BrokenDoc == <<"{", "\"", "t", "a", "b", "l", "e", "s", "\"", ":", " ", "[", "}">>
\* <html>
HtmlDoc == <<"<", "h", "t", "m", "l", ">">>
\* {"a":1,}
TrailingCommaDoc == <<"{", "\"", "a", "\"", ":", "1", ",", "}">>
\* nul
TruncatedDoc == <<"n", "u", "l">>

Documents ==
  {TablesDoc, RepeatedKeyDoc, EscapeDoc, NegativeDoc, BrokenDoc, HtmlDoc,
   TrailingCommaDoc, TruncatedDoc}

Bodies == Documents \cup SeqsUpTo(BodyAlphabet, MaxBodyLen)

Responses == [status : Statuses, statusText : StatusTexts, body : Bodies]

(***************************************************************************)
(* The state of the module and of the modules that import it.              *)
(***************************************************************************)
VARIABLES
  pc,         \* where the evaluation of data.ts stands
  requests,   \* the paths fetch has been called with, in order
  response,   \* the constant `response` of line 3
  bodyState,  \* the body of the response: unread, reading, read or errored
  neuralake,  \* the exported constant of line 8
  error,      \* the error the evaluation threw
  imp,        \* each importing module: idle, waiting, running or failed
  reads,      \* how many times each importer has read `neuralake`
  observed    \* what each importer saw at its last read

vars == <<pc, requests, response, bodyState, neuralake, error, imp, reads, observed>>

NoResponse == [status |-> 0, statusText |-> "", body |-> <<>>]
NoError == [name |-> "none", message |-> "", at |-> 0]

\* response.ok
Ok(resp) == resp.status >= 200 /\ resp.status <= 299

\* Variant: the message leaves the status text out.
StatusErrorNoText(resp) ==
  [name |-> "Error", message |-> "Failed to load data: ", at |-> 0]

\* new Error(`Failed to load data: ${response.statusText}`)
StatusError(resp) ==
  [name |-> "Error", message |-> "Failed to load data: " \o resp.statusText, at |-> 0]

\* The rejection of response.json() for a body that is not JSON.  The
\* message text is the engine's; the position is where the parse stopped.
SyntaxErrorAt(at) == [name |-> "SyntaxError", message |-> "Unexpected token in JSON", at |-> at]

\* The rejection of fetch, or of the body read, when the network fails.
NetworkError == [name |-> "TypeError", message |-> "Failed to fetch", at |-> 0]

\* Variant: the cast checks the shape and substitutes an empty object.
CastChecked(v) == IF v.kind = "object" THEN v ELSE JObject(<<>>)

\* `as ExportedNeuralake`: a compile-time assertion with no effect at run time.
Cast(v) == v

Init ==
  /\ pc = "unevaluated"
  /\ requests = <<>>
  /\ response = NoResponse
  /\ bodyState = "unread"
  /\ neuralake = Unset
  /\ error = NoError
  /\ imp = [i \in Importers |-> "idle"]
  /\ reads = [i \in Importers |-> 0]
  /\ observed = [i \in Importers |-> Unset]

\* Variant: every import evaluates the module body again.
ImportReevaluates(i) ==
  /\ imp[i] = "idle"
  /\ imp' = [imp EXCEPT ![i] = "waiting"]
  /\ requests' = Append(requests, DataPath)
  /\ pc' = "awaitFetch"
  /\ UNCHANGED <<response, bodyState, neuralake, error, reads, observed>>

\* A module imports data.ts.  The first import starts the evaluation, which
\* runs line 3 up to its await; every import then waits for the evaluation.
Import(i) ==
  /\ imp[i] = "idle"
  /\ imp' = [imp EXCEPT ![i] = "waiting"]
  /\ IF pc = "unevaluated"
     THEN /\ requests' = Append(requests, DataPath)
          /\ pc' = "awaitFetch"
     ELSE UNCHANGED <<pc, requests>>
  /\ UNCHANGED <<response, bodyState, neuralake, error, reads, observed>>

\* Variant: an unsuccessful status is retried once before failing.
FetchFulfilRetry(resp) ==
  /\ pc = "awaitFetch"
  /\ response' = resp
  /\ IF ~Ok(resp)
     THEN IF Len(requests) < 2
          THEN /\ requests' = Append(requests, DataPath)
               /\ UNCHANGED <<pc, error, bodyState>>
          ELSE /\ error' = StatusError(resp)
               /\ pc' = "failed"
               /\ UNCHANGED <<bodyState, requests>>
     ELSE /\ bodyState' = "reading"
          /\ pc' = "awaitJson"
          /\ UNCHANGED <<error, requests>>
  /\ UNCHANGED <<neuralake, imp, reads, observed>>

\* Variant: the binding holds an empty object while the body is read.
FetchFulfilPlaceholder(resp) ==
  /\ pc = "awaitFetch"
  /\ response' = resp
  /\ IF ~Ok(resp)
     THEN /\ error' = StatusError(resp)
          /\ pc' = "failed"
          /\ UNCHANGED <<bodyState, neuralake>>
     ELSE /\ bodyState' = "reading"
          /\ neuralake' = JObject(<<>>)
          /\ pc' = "awaitJson"
          /\ UNCHANGED error
  /\ UNCHANGED <<requests, imp, reads, observed>>

\* Variant: the body read is started before the status is looked at.
FetchFulfilReadFirst(resp) ==
  /\ pc = "awaitFetch"
  /\ response' = resp
  /\ bodyState' = "reading"
  /\ IF ~Ok(resp)
     THEN /\ error' = StatusError(resp)
          /\ pc' = "failed"
     ELSE /\ pc' = "awaitJson"
          /\ UNCHANGED error
  /\ UNCHANGED <<requests, neuralake, imp, reads, observed>>

\* The fetch resolves with a response: lines 3 to 8 up to the second await.
FetchFulfil(resp) ==
  /\ pc = "awaitFetch"
  /\ response' = resp
  /\ IF ~Ok(resp)
     THEN /\ error' = StatusError(resp)
          /\ pc' = "failed"
          /\ UNCHANGED bodyState
     ELSE /\ bodyState' = "reading"
          /\ pc' = "awaitJson"
          /\ UNCHANGED error
  /\ UNCHANGED <<requests, neuralake, imp, reads, observed>>

\* Variant: a rejected fetch is reported and an empty object exported.
FetchRejectFallback ==
  /\ pc = "awaitFetch"
  /\ error' = NetworkError
  /\ neuralake' = JObject(<<>>)
  /\ pc' = "loaded"
  /\ UNCHANGED <<requests, response, bodyState, imp, reads, observed>>

\* The fetch rejects (no response): the await of line 3 throws.
FetchReject ==
  /\ pc = "awaitFetch"
  /\ error' = NetworkError
  /\ pc' = "failed"
  /\ UNCHANGED <<requests, response, bodyState, neuralake, imp, reads, observed>>

\* Variant: a parse failure is caught and an empty object exported.
JsonSettleSwallow ==
  /\ pc = "awaitJson"
  /\ bodyState' = "read"
  /\ LET r == JSONParse(response.body)
     IN  neuralake' = IF r.ok THEN Cast(r.val) ELSE JObject(<<>>)
  /\ pc' = "loaded"
  /\ UNCHANGED <<requests, response, error, imp, reads, observed>>

\* Variant: a parse failure is rethrown as the status error.
JsonSettleWrapped ==
  /\ pc = "awaitJson"
  /\ bodyState' = "read"
  /\ LET r == JSONParse(response.body)
     IN  IF r.ok
         THEN /\ neuralake' = Cast(r.val)
              /\ pc' = "loaded"
              /\ UNCHANGED error
         ELSE /\ error' = StatusError(response)
              /\ pc' = "failed"
              /\ UNCHANGED neuralake
  /\ UNCHANGED <<requests, response, imp, reads, observed>>

\* The body has arrived and response.json() settles: line 8.
JsonSettle ==
  /\ pc = "awaitJson"
  /\ bodyState' = "read"
  /\ LET r == JSONParse(response.body)
     IN  IF r.ok
         THEN /\ neuralake' = Cast(r.val)
              /\ pc' = "loaded"
              /\ UNCHANGED error
         ELSE /\ error' = SyntaxErrorAt(r.pos)
              /\ pc' = "failed"
              /\ UNCHANGED neuralake
  /\ UNCHANGED <<requests, response, imp, reads, observed>>

\* The connection fails while the body is read: response.json() rejects.
BodyStreamError ==
  /\ pc = "awaitJson"
  /\ bodyState' = "errored"
  /\ error' = NetworkError
  /\ pc' = "failed"
  /\ UNCHANGED <<requests, response, neuralake, imp, reads, observed>>

\* Variant: an importer does not wait for the evaluation of data.ts.
ImporterResumeEarly(i) ==
  /\ imp[i] = "waiting"
  /\ imp' = [imp EXCEPT ![i] = "running"]
  /\ UNCHANGED <<pc, requests, response, bodyState, neuralake, error, reads, observed>>

\* An importer's own evaluation starts once data.ts has evaluated.
ImporterResume(i) ==
  /\ imp[i] = "waiting"
  /\ pc = "loaded"
  /\ imp' = [imp EXCEPT ![i] = "running"]
  /\ UNCHANGED <<pc, requests, response, bodyState, neuralake, error, reads, observed>>

\* An importer's evaluation is abandoned when data.ts threw.
ImporterReject(i) ==
  /\ imp[i] = "waiting"
  /\ pc = "failed"
  /\ imp' = [imp EXCEPT ![i] = "failed"]
  /\ UNCHANGED <<pc, requests, response, bodyState, neuralake, error, reads, observed>>

\* A running importer reads the binding.
Read(i) ==
  /\ imp[i] = "running"
  /\ reads[i] < MaxReads
  /\ reads' = [reads EXCEPT ![i] = @ + 1]
  /\ observed' = [observed EXCEPT ![i] = neuralake]
  /\ UNCHANGED <<pc, requests, response, bodyState, neuralake, error, imp>>

Next ==
  \/ \E i \in Importers : Import(i)
  \/ \E resp \in Responses : FetchFulfil(resp)
  \/ FetchReject
  \/ JsonSettle
  \/ BodyStreamError
  \/ \E i \in Importers : ImporterResume(i)
  \/ \E i \in Importers : ImporterReject(i)
  \/ \E i \in Importers : Read(i)

Spec == Init /\ [][Next]_vars

\* The request and the body read each eventually settle.
Settles ==
  /\ WF_vars(FetchReject \/ \E resp \in Responses : FetchFulfil(resp))
  /\ WF_vars(BodyStreamError \/ JsonSettle)

LiveSpec == Spec /\ Settles

(***************************************************************************)
(* Properties.                                                             *)
(***************************************************************************)
Received == response # NoResponse
Terminal == {"loaded", "failed"}
Pending == {"awaitFetch", "awaitJson"}

\* C1: whenever the response received has a status outside 200-299, the
\* load has failed with an Error whose message is 'Failed to load data: '
\* followed by exactly the status text of the response; 404 'Not Found'
\* gives 'Failed to load data: Not Found'.
C1_StatusErrorMessage ==
  (Received /\ (response.status < 200 \/ response.status > 299)) =>
    /\ pc = "failed"
    /\ error.name = "Error"
    /\ error.message = "Failed to load data: " \o response.statusText
    /\ (response.statusText = "Not Found" => error.message = "Failed to load data: Not Found")
    /\ (response.statusText = "" => error.message = "Failed to load data: ")

C1_Witness ==
  /\ pc = "failed"
  /\ response.status = 404
  /\ response.statusText = "Not Found"
  /\ error.message = "Failed to load data: Not Found"

\* The values the sample documents denote, written out by hand.
TablesValue == JObject(<<"t", "a", "b", "l", "e", "s">> :> JArray(<<>>))
RepeatedKeyValue == JObject(<<"a">> :> JArray(<<JBool(TRUE), JNull>>))
EscapeValue == JString(<<"a", "\n">>)
NegativeValue == JNumber(0 - 12)

\* C2: once a success response whose body is valid JSON has been read, the
\* module is loaded and `neuralake` is the value the body denotes, whatever
\* its shape (object or not); a loaded value always is the parse of the body.
C2_LoadedEqualsParsed ==
  /\ (pc = "loaded" =>
        /\ JSONParse(response.body).ok
        /\ neuralake = JSONParse(response.body).val
        /\ (response.body = TablesDoc => neuralake = TablesValue)
        /\ (response.body = RepeatedKeyDoc => neuralake = RepeatedKeyValue)
        /\ (response.body = EscapeDoc => neuralake = EscapeValue)
        /\ (response.body = NegativeDoc => neuralake = NegativeValue)
        /\ (response.body = <<"[", "1", "]">> => neuralake = JArray(<<JNumber(1)>>))
        /\ (response.body = <<"1", "0">> => neuralake = JNumber(10)))
  /\ (Received /\ Ok(response) /\ bodyState = "read" /\ JSONParse(response.body).ok =>
        pc = "loaded")
  /\ (Received /\ Ok(response) /\ bodyState = "read" /\ response.body \in
          {TablesDoc, RepeatedKeyDoc, EscapeDoc, NegativeDoc, <<"0">>, <<"[", "]">>} =>
        pc = "loaded")

C2_Witness ==
  /\ pc = "loaded"
  /\ response.status = 200
  /\ response.body = NegativeDoc
  /\ neuralake = NegativeValue

\* C3: once a success response whose body is not valid JSON has been read,
\* the load has failed with the SyntaxError of the parse, unchanged, no value
\* is assigned to `neuralake` and no importer runs or reads.
C3_ParseErrorPropagates ==
  (Received /\ Ok(response) /\ bodyState = "read" /\ ~JSONParse(response.body).ok) =>
    /\ pc = "failed"
    /\ error = SyntaxErrorAt(JSONParse(response.body).pos)
    /\ neuralake = Unset
    /\ \A i \in Importers : imp[i] # "running" /\ reads[i] = 0 /\ observed[i] = Unset
    /\ (response.body \in {BrokenDoc, HtmlDoc, TrailingCommaDoc, TruncatedDoc, <<>>, <<"0", "1">>} =>
          error.name = "SyntaxError")

C3_Witness ==
  /\ pc = "failed"
  /\ response.status = 200
  /\ response.body = BrokenDoc
  /\ error.name = "SyntaxError"
  /\ \E i \in Importers : imp[i] = "failed"

\* C4 as stated: every failed load is a transport failure, raised for a
\* response with an unsuccessful status.
C4_OnlyTransportFailure ==
  pc = "failed" => (Received /\ ~Ok(response) /\ error = StatusError(response))

\* C4: every failed load is one of three kinds: the status error for a
\* response with an unsuccessful status, the SyntaxError of the parse for a
\* success response whose body is not JSON, or the network TypeError of a
\* rejected fetch or of a body read that the connection broke.
C4_FailureKinds ==
  pc = "failed" =>
    \/ Received /\ ~Ok(response) /\ bodyState = "unread" /\ error = StatusError(response)
    \/ /\ Received /\ Ok(response) /\ bodyState = "read"
       /\ ~JSONParse(response.body).ok
       /\ error = SyntaxErrorAt(JSONParse(response.body).pos)
    \/ Received /\ Ok(response) /\ bodyState = "errored" /\ error = NetworkError
    \/ ~Received /\ bodyState = "unread" /\ error = NetworkError

C4_Witness ==
  /\ pc = "failed"
  /\ response.status = 200
  /\ response.body = HtmlDoc
  /\ error.name = "SyntaxError"

C5_Requests ==
  /\ Len(requests) <= 1
  /\ \A k \in 1..Len(requests) : requests[k] = "/data.json"
  /\ (pc = "unevaluated" <=> requests = <<>>)
  /\ \A i \in Importers : reads[i] > 0 => (observed[i] = neuralake /\ neuralake # Unset)
  /\ \A i, j \in Importers : (reads[i] > 0 /\ reads[j] > 0) => observed[i] = observed[j]

C5_ReadStep ==
  (\E i \in Importers : reads'[i] # reads[i]) =>
    /\ requests' = requests
    /\ neuralake' = neuralake
    /\ \A i \in Importers : (reads[i] > 0 /\ reads'[i] # reads[i]) => observed'[i] = observed[i]

\* C5: at most one request is ever issued, to '/data.json', by the first
\* import; every read by every importer yields the one loaded value, and a
\* read issues no request.
C5_OneRequest == [](C5_Requests) /\ [][C5_ReadStep]_vars

C5_Witness ==
  /\ Len(requests) = 1
  /\ \A i \in Importers : reads[i] = MaxReads /\ observed[i] = neuralake

C6_FailedOnStatus ==
  (Received /\ ~Ok(response)) =>
    /\ pc = "failed"
    /\ Len(requests) = 1
    /\ neuralake = Unset
    /\ error.name = "Error"

C6_StaysFailed ==
  pc = "failed" =>
    /\ pc' = "failed"
    /\ requests' = requests
    /\ neuralake' = Unset
    /\ error' = error

\* C6: with an unsuccessful status the load is failed as soon as the
\* response is received, with one request made and no value assigned, and a
\* failed load stays failed: no later step issues a request, assigns a value
\* or changes the error.
C6_NoRetryNoFallback == [](C6_FailedOnStatus) /\ [][C6_StaysFailed]_vars

C6_Witness ==
  /\ pc = "failed"
  /\ response.status = 300
  /\ Len(requests) = 1
  /\ \A i \in Importers : imp[i] = "failed"

C7_Written ==
  neuralake # Unset =>
    /\ pc = "loaded"
    /\ neuralake = JSONParse(response.body).val

C7_WriteStep ==
  /\ (neuralake # Unset => neuralake' = neuralake)
  /\ (neuralake' # neuralake => (pc = "awaitJson" /\ pc' = "loaded"))

C8_ReadsAfterLoad ==
  /\ \A i \in Importers :
       (imp[i] = "running" \/ reads[i] > 0) =>
         /\ pc = "loaded"
         /\ Received /\ Ok(response)
         /\ bodyState = "read"
         /\ JSONParse(response.body).ok
  /\ \A i \in Importers : reads[i] > 0 => (observed[i] # Unset /\ observed[i] = neuralake)
  /\ (pc # "loaded" => \A i \in Importers : imp[i] # "running" /\ reads[i] = 0 /\ observed[i] = Unset)

C8_Witness ==
  /\ \E i \in Importers : reads[i] > 0 /\ observed[i] = RepeatedKeyValue
  /\ \E i \in Importers : imp[i] = "waiting"

\* C9: the body is read (or parsed) only for a response whose status is
\* successful; for an unsuccessful status the body stays unread, also when
\* it is valid JSON.
C9_StatusBeforeBody ==
  /\ (bodyState # "unread" => (Received /\ Ok(response)))
  /\ ((Received /\ ~Ok(response)) => (bodyState = "unread" /\ neuralake = Unset))
  /\ ((neuralake # Unset \/ error.name = "SyntaxError") => Ok(response))

C9_Witness ==
  /\ pc = "failed"
  /\ response.status = 404
  /\ response.body = TablesDoc
  /\ JSONParse(response.body).ok
  /\ bodyState = "unread"

C10_Exclusive ==
  /\ ~(neuralake # Unset /\ error # NoError)
  /\ (pc = "loaded" <=> neuralake # Unset)
  /\ (pc = "failed" <=> error # NoError)
  /\ (pc \in Pending => \A i \in Importers : reads[i] = 0 /\ imp[i] \in {"idle", "waiting"})

C10_NoWayOut ==
  /\ (pc \in Terminal => pc' = pc)
  /\ (pc = "awaitFetch" => (pc' = "awaitFetch" \/ response' # response \/ error' = NetworkError))

\* C10: when the request and the body read each eventually settle, a load
\* that has started eventually is loaded or failed, never both, and stays
\* so; while it is pending the value is unset and unread, and only the
\* settling of the request ends the wait for it.
C10_Settles ==
  /\ (pc \in Pending) ~> (pc \in Terminal)
  /\ [](C10_Exclusive)
  /\ [][C10_NoWayOut]_vars

C10_Witness ==
  /\ pc = "failed"
  /\ bodyState = "errored"
  /\ error = NetworkError
  /\ neuralake = Unset

====
